---- MODULE Spec2Model ----
(***************************************************************************)
(* Inventory and billing backend (src/app.py): the SQLite tables products, *)
(* inventory, bills and bill_items, and the Flask handlers that change     *)
(* them.  Each handler is an operator from the database it finds to the    *)
(* database it leaves and the response it gives.                           *)
(*                                                                         *)
(*   Spec      every handler, one request at a time, from the empty        *)
(*             database that init_db() creates.                            *)
(*   SpecBill  one POST /bill, served on a database that a sequence of     *)
(*             POST /products and POST /inventory requests has stocked.    *)
(*   SpecConc  two POST /bill requests on two connections, interleaved at  *)
(*             the statements that read and write the database, each of    *)
(*             which may raise an exception.                               *)
(*   SpecRead  every handler and GET /bills, one request at a time, from a *)
(*             database with one product in stock.                         *)
(*                                                                         *)
(* Amounts are fixed point: prices are integers, discount and tax rate are *)
(* percentages, and total_amount is kept in units of 1/10000, that is      *)
(* subtotal * (100 - discount) * (100 + tax_rate).  The column             *)
(* products.description is written and read by the statements that write   *)
(* and read products.name, and products.initial_quantity is written but    *)
(* never read: both are left out.                                          *)
(***************************************************************************)
EXTENDS Integers, Sequences, FiniteSets, TLC

\* ---------------------------------------------------------------- bounds
MaxProducts  == 2     \* Spec: product rows ever inserted
MaxBatches   == 2     \* Spec: inventory rows ever inserted
MaxBills     == 2     \* Spec: bill rows ever inserted
MaxQty       == 2     \* Spec: largest batch quantity and ordered quantity
MaxItems     == 1     \* Spec: line items of one order
MaxPrice     == 2     \* largest unit price
MaxDate      == 0     \* datetime.now() ranges over 0..MaxDate
SetupBatches == 3     \* SpecBill: batches stocked before the order
SetupQty     == 3     \* SpecBill: largest quantity of a stocked batch
MaxOrderQty  == 4     \* SpecBill: largest ordered quantity
OrderItems   == 2     \* SpecBill: line items of the order
NumConns     == 2     \* SpecConc: connections, each serving one POST /bill
ConcBatches  == 2     \* SpecConc: batches stocked before the orders
ConcQty      == 2     \* SpecConc: largest batch quantity and ordered quantity
ConcItems    == 2     \* SpecConc: line items of one order
MaxReadDate  == 2     \* SpecRead: datetime.now() ranges over 1..MaxReadDate

Names     == {"n1", "n2"}
Labels    == {"A"}
Customers == {"", "c1"}
Prices    == 1..MaxPrice
Dates     == 0..MaxDate

\* A JSON number of a request body: an int, or a float that is no integer.
JsonInt(n) == [type |-> "int", val |-> n]
JsonFloat  == [type |-> "float", val |-> 1]
Quantities(max) == {JsonInt(n) : n \in -1..max} \cup {JsonFloat}

\* An optional rate of the request body (discount, tax_rate), in percent.
Omitted   == [given |-> FALSE, val |-> 0]
Given(v)  == [given |-> TRUE, val |-> v]
Rates     == {Omitted, Given(50)}

Items(products_ids, max)  == [product_id : products_ids, quantity : Quantities(max)]
Orders(products_ids, max, len) ==
  UNION {[1..n -> Items(products_ids, max)] : n \in 1..len}

VARIABLES
  products,     \* products table: id -> [name, price]
  inventory,    \* inventory table: set of [id, product_id, batch_number, quantity]
  bills,        \* bills table: set of [id, customer_name, bill_date, total_amount, discount, tax]
  bill_items,   \* bill_items table: set of [id, bill_id, product_id, quantity, price_at_purchase]
  seq,          \* sqlite_sequence: table -> largest id ever given (AUTOINCREMENT)
  before,       \* the database the behaviour starts from
  req,          \* SpecBill: the body of the POST /bill request served; Spec: the
                \* body of the request last served, if it was an accepted
                \* POST /products or POST /inventory
  resp,         \* Spec, SpecBill: the response of the last handler
  conns,        \* SpecConc: connection -> the POST /bill request running on it
  lock,         \* SpecConc: the connection that holds the database's write
                \* lock (has an open transaction), or 0
  listed        \* SpecRead: what the last GET /bills returned, and what was
                \* served since

vars == <<products, inventory, bills, bill_items, seq, before, req, resp, conns, lock,
          listed>>

\* The database as one value.
DB == [products |-> products, inventory |-> inventory, bills |-> bills,
       bill_items |-> bill_items, seq |-> seq]

\* A connection that enforces foreign keys.
foreign_keys_on == TRUE

\* PRAGMA foreign_keys: off unless a connection turns it on; get_db_connection
\* does not.
foreign_keys == FALSE

\* ------------------------------------------------------------ helpers
Max(S) == CHOOSE x \in S : \A y \in S : y <= x
Min(S) == CHOOSE x \in S : \A y \in S : x <= y

RECURSIVE SumQty(_)
SumQty(S) ==
  IF S = {} THEN 0
  ELSE LET b == CHOOSE x \in S : TRUE IN b.quantity + SumQty(S \ {b})

\* Total quantity across the batches of product p in inventory inv.
Stock(inv, p) == SumQty({b \in inv : b.product_id = p})

\* ORDER BY id ASC: the rows of S as a sequence in ascending id.
RECURSIVE OrderById(_)
OrderById(S) ==
  IF S = {} THEN <<>>
  ELSE LET b == CHOOSE x \in S : \A y \in S : x.id <= y.id
       IN <<b>> \o OrderById(S \ {b})

\* init_db() on a new database file: the tables exist and are empty.
init_db ==
  [products |-> <<>>, inventory |-> {}, bills |-> {}, bill_items |-> {},
   seq |-> [products |-> 0, inventory |-> 0, bills |-> 0, bill_items |-> 0]]

NoRequest  == [op |-> "none"]
NoResponse == [op |-> "none", status |-> 0]
NoConns    == <<>>
NoListing  == [seen |-> FALSE, bills_data |-> <<>>, catalog_changed |-> FALSE,
               other |-> FALSE, again |-> FALSE]

\* ------------------------------------------------- products (collaborator)
InitialLabel(product_id) == "INITIAL-" \o ToString(product_id)

\* INSERT OR IGNORE INTO inventory, then UPDATE ... SET quantity = quantity + ?
\* on the same (product_id, batch_number).
InitialBatch(inv, id, product_id, batch_number, initial_quantity) ==
  LET inserted ==
        IF \E b \in inv : b.product_id = product_id /\ b.batch_number = batch_number
        THEN inv
        ELSE inv \cup {[id |-> id, product_id |-> product_id,
                        batch_number |-> batch_number, quantity |-> initial_quantity]}
  IN {IF b.product_id = product_id /\ b.batch_number = batch_number
      THEN [b EXCEPT !.quantity = @ + initial_quantity] ELSE b : b \in inserted}

\* POST /products on a table whose id is a plain INTEGER PRIMARY KEY: the new
\* row gets the largest id in the table plus one, so the id of a deleted last
\* row is given again.
add_product_rowid(db, name, price, initial_quantity) ==
  IF name = ""
  THEN [db |-> db, resp |-> [op |-> "add_product", status |-> 400]]
  ELSE IF \E i \in DOMAIN db.products : db.products[i].name = name
  THEN [db |-> db, resp |-> [op |-> "add_product", status |-> 409]]
  ELSE LET product_id == Max(DOMAIN db.products \cup {0}) + 1
           batch_id == db.seq.inventory + 1
           stocked == initial_quantity > 0
       IN [db |-> [db EXCEPT
                    !.products = @ @@ (product_id :> [name |-> name, price |-> price]),
                    !.inventory = IF stocked
                                  THEN InitialBatch(@, batch_id, product_id,
                                         InitialLabel(product_id), initial_quantity)
                                  ELSE @,
                    !.seq = [@ EXCEPT !.products = product_id,
                                      !.inventory = IF stocked THEN batch_id ELSE @]],
           resp |-> [op |-> "add_product", status |-> 201, id |-> product_id]]

\* POST /products
add_product(db, name, price, initial_quantity) ==
  IF name = ""
  THEN [db |-> db, resp |-> [op |-> "add_product", status |-> 400]]
  ELSE IF \E i \in DOMAIN db.products : db.products[i].name = name
  THEN [db |-> db, resp |-> [op |-> "add_product", status |-> 409]]
  ELSE LET product_id == db.seq.products + 1
           batch_id == db.seq.inventory + 1
           stocked == initial_quantity > 0
       IN [db |-> [db EXCEPT
                    !.products = @ @@ (product_id :> [name |-> name, price |-> price]),
                    !.inventory = IF stocked
                                  THEN InitialBatch(@, batch_id, product_id,
                                         InitialLabel(product_id), initial_quantity)
                                  ELSE @,
                    !.seq = [@ EXCEPT !.products = product_id,
                                      !.inventory = IF stocked THEN batch_id ELSE @]],
           resp |-> [op |-> "add_product", status |-> 201, id |-> product_id]]

\* PUT /products/<product_id>
update_product(db, product_id, name, price) ==
  IF name = ""
  THEN [db |-> db, resp |-> [op |-> "update_product", status |-> 400]]
  ELSE IF product_id \notin DOMAIN db.products
  THEN [db |-> db, resp |-> [op |-> "update_product", status |-> 404]]
  ELSE IF \E i \in DOMAIN db.products \ {product_id} : db.products[i].name = name
  THEN \* UNIQUE(name): sqlite3.IntegrityError, which the handler does not catch
       [db |-> db, resp |-> [op |-> "update_product", status |-> 500]]
  ELSE [db |-> [db EXCEPT !.products[product_id] = [name |-> name, price |-> price]],
        resp |-> [op |-> "update_product", status |-> 200]]

\* DELETE /products/<product_id>; the schema's ON DELETE CASCADE clauses act
\* only on a connection that enforces foreign keys.
delete_product(db, product_id) ==
  IF product_id \notin DOMAIN db.products
  THEN [db |-> db, resp |-> [op |-> "delete_product", status |-> 404]]
  ELSE [db |-> [db EXCEPT
                 !.products = [i \in DOMAIN @ \ {product_id} |-> @[i]],
                 !.inventory = IF foreign_keys
                               THEN {b \in @ : b.product_id # product_id} ELSE @,
                 !.bill_items = IF foreign_keys
                                THEN {r \in @ : r.product_id # product_id} ELSE @],
        resp |-> [op |-> "delete_product", status |-> 200]]

\* ------------------------------------------------ inventory (collaborator)
\* POST /inventory as one INSERT OR REPLACE: a batch of the same product and
\* label is deleted and a new row takes its place.
add_or_update_inventory_replace(db, product_id, batch_number, quantity) ==
  IF product_id = 0 \/ batch_number = ""
  THEN [db |-> db, resp |-> [op |-> "add_or_update_inventory", status |-> 400]]
  ELSE IF quantity.type # "int" \/ quantity.val <= 0
  THEN [db |-> db, resp |-> [op |-> "add_or_update_inventory", status |-> 400]]
  ELSE IF product_id \notin DOMAIN db.products
  THEN [db |-> db, resp |-> [op |-> "add_or_update_inventory", status |-> 404]]
  ELSE [db |-> [db EXCEPT
                  !.inventory =
                     {b \in @ : ~ (b.product_id = product_id
                                   /\ b.batch_number = batch_number)}
                     \cup {[id |-> db.seq.inventory + 1, product_id |-> product_id,
                            batch_number |-> batch_number, quantity |-> quantity.val]},
                  !.seq.inventory = @ + 1],
        resp |-> [op |-> "add_or_update_inventory", status |-> 201]]

\* POST /inventory
add_or_update_inventory(db, product_id, batch_number, quantity) ==
  IF product_id = 0 \/ batch_number = ""
  THEN [db |-> db, resp |-> [op |-> "add_or_update_inventory", status |-> 400]]
  ELSE IF quantity.type # "int" \/ quantity.val <= 0
  THEN [db |-> db, resp |-> [op |-> "add_or_update_inventory", status |-> 400]]
  ELSE IF product_id \notin DOMAIN db.products
  THEN [db |-> db, resp |-> [op |-> "add_or_update_inventory", status |-> 404]]
  ELSE LET existing == {b \in db.inventory : b.product_id = product_id
                                             /\ b.batch_number = batch_number}
       IN [db |->
             IF existing # {}
             THEN LET existing_batch == CHOOSE b \in existing : TRUE
                      new_quantity == existing_batch.quantity + quantity.val
                  IN [db EXCEPT !.inventory =
                        {IF b.id = existing_batch.id
                         THEN [b EXCEPT !.quantity = new_quantity] ELSE b : b \in @}]
             ELSE [db EXCEPT
                     !.inventory = @ \cup
                        {[id |-> db.seq.inventory + 1, product_id |-> product_id,
                          batch_number |-> batch_number, quantity |-> quantity.val]},
                     !.seq.inventory = @ + 1],
           resp |-> [op |-> "add_or_update_inventory", status |-> 201]]

\* DELETE /inventory/<inventory_id>
delete_inventory_batch(db, inventory_id) ==
  IF \A b \in db.inventory : b.id # inventory_id
  THEN [db |-> db, resp |-> [op |-> "delete_inventory_batch", status |-> 404]]
  ELSE [db |-> [db EXCEPT !.inventory = {b \in @ : b.id # inventory_id}],
        resp |-> [op |-> "delete_inventory_batch", status |-> 200]]

\* ------------------------------------------------------- billing engine
\* The loop over available_inventory: walks the batches in the order given,
\* recording (new_batch_quantity, batch_id) for each batch it draws from.
RECURSIVE WalkBatches(_, _, _)
WalkBatches(available_inventory, current_quantity_needed, deducted_from_batches) ==
  IF available_inventory = <<>> \/ current_quantity_needed <= 0
  THEN [needed |-> current_quantity_needed, deducted |-> deducted_from_batches]
  ELSE LET inv_batch == Head(available_inventory) IN
       IF inv_batch.quantity >= current_quantity_needed
       THEN WalkBatches(Tail(available_inventory), 0,
                Append(deducted_from_batches,
                       [new_q |-> inv_batch.quantity - current_quantity_needed,
                        b_id |-> inv_batch.id]))
       ELSE WalkBatches(Tail(available_inventory),
                current_quantity_needed - inv_batch.quantity,
                Append(deducted_from_batches, [new_q |-> 0, b_id |-> inv_batch.id]))

\* ORDER BY id DESC: the rows of S as a sequence in descending id.
RECURSIVE OrderByIdDesc(_)
OrderByIdDesc(S) ==
  IF S = {} THEN <<>>
  ELSE LET b == CHOOSE x \in S : \A y \in S : x.id >= y.id
       IN <<b>> \o OrderByIdDesc(S \ {b})

\* The batches of a product, newest first.
AvailableInventoryDesc(inv, product_id) ==
  OrderByIdDesc({b \in inv : b.product_id = product_id})

\* The batches of every product: the SELECT without its WHERE clause.
AvailableInventoryAll(inv, product_id) == OrderById(inv)

\* SELECT id, quantity FROM inventory WHERE product_id = ? ORDER BY id ASC
AvailableInventory(inv, product_id) ==
  OrderById({b \in inv : b.product_id = product_id})

\* The deduction plan of one line item against the inventory it reads.
DeductionPlan(inv, product_id, quantity_requested) ==
  WalkBatches(AvailableInventory(inv, product_id), quantity_requested, <<>>)

\* Every deduction applied as an UPDATE, also one to quantity 0.
RECURSIVE ApplyDeductionsUpdate(_, _)
ApplyDeductionsUpdate(inv, deducted_from_batches) ==
  IF deducted_from_batches = <<>> THEN inv
  ELSE LET d == Head(deducted_from_batches)
           after == {IF b.id = d.b_id THEN [b EXCEPT !.quantity = d.new_q] ELSE b
                     : b \in inv}
       IN ApplyDeductionsUpdate(after, Tail(deducted_from_batches))

\* for new_q, b_id in deducted_from_batches: DELETE the batch, or UPDATE its
\* quantity to new_q.
RECURSIVE ApplyDeductions(_, _)
ApplyDeductions(inv, deducted_from_batches) ==
  IF deducted_from_batches = <<>> THEN inv
  ELSE LET d == Head(deducted_from_batches)
           after == IF d.new_q = 0
                    THEN {b \in inv : b.id # d.b_id}
                    ELSE {IF b.id = d.b_id THEN [b EXCEPT !.quantity = d.new_q] ELSE b
                          : b \in inv}
       IN ApplyDeductions(after, Tail(deducted_from_batches))

\* The checks of one line item with "quantity_requested < 0" for "<= 0".
ItemErrorZero(prods, inv, item) ==
  IF item.product_id = 0 THEN "fields"
  ELSE IF item.quantity.type # "int" \/ item.quantity.val < 0 THEN "quantity"
  ELSE IF item.product_id \notin DOMAIN prods THEN "product"
  ELSE IF DeductionPlan(inv, item.product_id, item.quantity.val).needed > 0 THEN "stock"
  ELSE ""

\* The checks of one line item, in the order the handler makes them: "" when
\* the item passes, else which ValueError is raised.
ItemError(prods, inv, item) ==
  IF item.product_id = 0 THEN "fields"
  ELSE IF item.quantity.type # "int" \/ item.quantity.val <= 0 THEN "quantity"
  ELSE IF item.product_id \notin DOMAIN prods THEN "product"
  ELSE IF DeductionPlan(inv, item.product_id, item.quantity.val).needed > 0 THEN "stock"
  ELSE ""

\* A request before its first item: the inventory its connection sees, and
\* whether the connection has an open transaction (has written).
StartBill(inv) ==
  [inventory |-> inv, in_transaction |-> FALSE, total_amount |-> 0,
   bill_items_to_insert |-> <<>>, error |-> "", failed |-> 0]

\* One iteration of "for item in items" on a request in state st, item being
\* the i-th item of the order.
ProcessItem(prods, st, item, i) ==
  LET error == ItemError(prods, st.inventory, item) IN
  IF error # "" THEN [st EXCEPT !.error = error, !.failed = i]
  ELSE LET product_price == prods[item.product_id].price
           quantity_requested == item.quantity.val
           plan == DeductionPlan(st.inventory, item.product_id, quantity_requested)
       IN [st EXCEPT
             !.inventory = ApplyDeductions(@, plan.deducted),
             !.in_transaction = @ \/ plan.deducted # <<>>,
             !.total_amount = @ + product_price * quantity_requested,
             !.bill_items_to_insert =
                Append(@, [product_id |-> item.product_id,
                           quantity |-> quantity_requested,
                           price_at_purchase |-> product_price])]

\* Plan, then apply: every item is checked and planned against the inventory
\* the request found, and the plans are applied one after the other.
ProcessItemsFromSnapshot(prods, st, items, i) ==
  LET f[k \in 0..Len(items)] ==
        IF k < i THEN st
        ELSE IF f[k - 1].error # "" THEN f[k - 1]
        ELSE LET item == items[k]
                 error == ItemError(prods, st.inventory, item)
             IN IF error # "" THEN [f[k - 1] EXCEPT !.error = error, !.failed = k]
                ELSE LET plan == DeductionPlan(st.inventory, item.product_id,
                                               item.quantity.val)
                     IN [f[k - 1] EXCEPT
                           !.inventory = ApplyDeductions(@, plan.deducted),
                           !.in_transaction = TRUE,
                           !.total_amount = @ + prods[item.product_id].price
                                                  * item.quantity.val,
                           !.bill_items_to_insert =
                              Append(@, [product_id |-> item.product_id,
                                         quantity |-> item.quantity.val,
                                         price_at_purchase |-> prods[item.product_id].price])]
  IN f[Len(items)]

\* The loop "for item in items" from the i-th item on, left at the first
\* ValueError.
RECURSIVE ProcessItems(_, _, _, _)
ProcessItems(prods, st, items, i) ==
  IF i > Len(items) \/ st.error # "" THEN st
  ELSE ProcessItems(prods, ProcessItem(prods, st, items[i], i), items, i + 1)

\* data.get('discount', 0.0), data.get('tax_rate', 0.0)
RateOf(rate) == IF rate.given THEN rate.val ELSE 0

\* The tax applied to the total before the discount instead of after it.
FinalTotalUndiscounted(total_amount, discount, tax_rate) ==
  LET total_amount_after_discount == total_amount * (100 - discount)
  IN total_amount * 100 * (100 + tax_rate)

\* final_total_amount, in units of 1/10000.
FinalTotal(total_amount, discount, tax_rate) ==
  LET total_amount_after_discount == total_amount * (100 - discount)
  IN total_amount_after_discount * (100 + tax_rate)

\* The rows of bill_items with item_total in the place of the unit price.
BillItemRowsTotal(bill_id, first_id, bill_items_to_insert) ==
  {[id |-> first_id + k - 1, bill_id |-> bill_id,
    product_id |-> bill_items_to_insert[k].product_id,
    quantity |-> bill_items_to_insert[k].quantity,
    price_at_purchase |-> bill_items_to_insert[k].price_at_purchase
                            * bill_items_to_insert[k].quantity]
   : k \in 1..Len(bill_items_to_insert)}

\* The INSERT INTO bill_items after its loop instead of in it: one row, of the
\* last line item.
BillItemRowsLast(bill_id, first_id, bill_items_to_insert) ==
  {[id |-> first_id, bill_id |-> bill_id,
    product_id |-> bill_items_to_insert[k].product_id,
    quantity |-> bill_items_to_insert[k].quantity,
    price_at_purchase |-> bill_items_to_insert[k].price_at_purchase]
   : k \in {Len(bill_items_to_insert)}}

\* The rows INSERTed INTO bill_items for the bill bill_id.
BillItemRows(bill_id, first_id, bill_items_to_insert) ==
  {[id |-> first_id + k - 1, bill_id |-> bill_id,
    product_id |-> bill_items_to_insert[k].product_id,
    quantity |-> bill_items_to_insert[k].quantity,
    price_at_purchase |-> bill_items_to_insert[k].price_at_purchase]
   : k \in 1..Len(bill_items_to_insert)}

\* Rollback without effect: the connection's writes stay.
RollbackLost(committed, working) == working

\* conn.rollback(): the tables go back to their committed contents.
Rollback(committed, working) == committed

\* The 400 response to a ValueError.
Rejected ==
  [op |-> "generate_bill", status |-> 400, bill_id |-> 0, total_amount |-> 0]

\* INSERT INTO bills, then INSERT INTO bill_items for each line item.
InsertBill(db, customer_name, bill_date, final_total_amount, discount, tax_rate, bill_items_to_insert) ==
  LET bill_id == db.seq.bills + 1 IN
  [db EXCEPT
     !.bills = @ \cup
        {[id |-> bill_id, customer_name |-> customer_name,
          bill_date |-> bill_date, total_amount |-> final_total_amount,
          discount |-> discount, tax |-> tax_rate]},
     !.bill_items = @ \cup
        BillItemRows(bill_id, db.seq.bill_items + 1, bill_items_to_insert),
     !.seq = [@ EXCEPT !.bills = bill_id,
                       !.bill_items = @ + Len(bill_items_to_insert)]]

\* The 201 response.
Created(bill_id, final_total_amount) ==
  [op |-> "generate_bill", status |-> 201, bill_id |-> bill_id,
   total_amount |-> final_total_amount]

\* POST /bill with no other connection at work, datetime.now() giving
\* bill_date.
generate_bill(db, customer_name, items, discount_in, tax_rate_in, bill_date) ==
  LET discount == RateOf(discount_in)
      tax_rate == RateOf(tax_rate_in)
      st == ProcessItems(db.products, StartBill(db.inventory), items, 1)
      final_total_amount == FinalTotal(st.total_amount, discount, tax_rate)
  IN
  IF customer_name = ""
  THEN [db |-> db, resp |-> Rejected]
  ELSE IF st.error # ""
  THEN [db |-> [db EXCEPT !.inventory = Rollback(@, st.inventory)],
        resp |-> Rejected]
  ELSE [db |-> InsertBill([db EXCEPT !.inventory = st.inventory], customer_name,
                          bill_date, final_total_amount, discount, tax_rate,
                          st.bill_items_to_insert),
        resp |-> Created(db.seq.bills + 1, final_total_amount)]

\* ---------------------------------------------------------- specification
\* The handler's result r is committed and answered.
Answer(r) ==
  /\ products' = r.db.products
  /\ inventory' = r.db.inventory
  /\ bills' = r.db.bills
  /\ bill_items' = r.db.bill_items
  /\ seq' = r.db.seq
  /\ resp' = r.resp
  /\ UNCHANGED <<before, conns, lock>>

Serve(r) == Answer(r) /\ UNCHANGED listed

\* The bounds of Spec.
WithinBounds(db) ==
  /\ db.seq.products <= MaxProducts
  /\ db.seq.inventory <= MaxBatches
  /\ db.seq.bills <= MaxBills
  /\ \A b \in db.inventory : b.quantity <= MaxQty

\* datetime.now() is no earlier than the date of any stored bill.
Now(db, d) == \A b \in db.bills : b.bill_date <= d

Init ==
  /\ products = init_db.products
  /\ inventory = init_db.inventory
  /\ bills = init_db.bills
  /\ bill_items = init_db.bill_items
  /\ seq = init_db.seq
  /\ before = init_db
  /\ req = NoRequest
  /\ resp = NoResponse
  /\ conns = NoConns
  /\ lock = 0
  /\ listed = NoListing

\* The body of an accepted request, kept for the properties of its effect.
Body(r, body) == IF r.resp.status = 201 THEN body ELSE NoRequest

PostProducts ==
  \E name \in Names \cup {""}, price \in Prices, initial_quantity \in -1..MaxQty :
    LET r == add_product(DB, name, price, initial_quantity) IN
    /\ WithinBounds(r.db)
    /\ Serve(r)
    /\ req' = Body(r, [op |-> "add_product", name |-> name, price |-> price,
                       initial_quantity |-> initial_quantity])

PutProduct ==
  \E product_id \in 1..MaxProducts, name \in Names \cup {""}, price \in Prices :
    Serve(update_product(DB, product_id, name, price)) /\ req' = NoRequest

DeleteProduct ==
  \E product_id \in 1..MaxProducts :
    Serve(delete_product(DB, product_id)) /\ req' = NoRequest

PostInventory ==
  \E product_id \in 0..MaxProducts, batch_number \in Labels,
     quantity \in Quantities(MaxQty) :
    LET r == add_or_update_inventory(DB, product_id, batch_number, quantity) IN
    /\ WithinBounds(r.db)
    /\ Serve(r)
    /\ req' = Body(r, [op |-> "add_or_update_inventory", product_id |-> product_id,
                       batch_number |-> batch_number, quantity |-> quantity])

DeleteInventory ==
  \E inventory_id \in 1..MaxBatches :
    Serve(delete_inventory_batch(DB, inventory_id)) /\ req' = NoRequest

PostBill ==
  \E customer_name \in Customers, items \in Orders(1..MaxProducts, MaxQty, MaxItems),
     discount \in {Omitted}, tax_rate \in {Omitted}, bill_date \in Dates :
    LET r == generate_bill(DB, customer_name, items, discount, tax_rate, bill_date) IN
    /\ WithinBounds(r.db)
    /\ Now(DB, bill_date)
    /\ Serve(r)
    /\ req' = NoRequest

Next ==
  \/ PostProducts
  \/ PutProduct
  \/ DeleteProduct
  \/ PostInventory
  \/ DeleteInventory
  \/ PostBill

Spec == Init /\ [][Next]_vars

\* ------------------------------------------- SpecBill: one order, served
\* The catalog after POST /products for each price of prices, in turn.
RECURSIVE Catalog(_, _)
Catalog(db, prices) ==
  IF prices = <<>> THEN db
  ELSE LET name == IF db.seq.products = 0 THEN "n1" ELSE "n2"
       IN Catalog(add_product(db, name, Head(prices), 0).db, Tail(prices))

\* The database after POST /inventory for each batch of batches, in turn,
\* each under a label of its own.
RECURSIVE Stocked(_, _)
Stocked(db, batches) ==
  IF batches = <<>> THEN db
  ELSE LET b == Head(batches)
           batch_number == "L" \o ToString(db.seq.inventory + 1)
       IN Stocked(add_or_update_inventory(db, b.product_id, batch_number,
                                          JsonInt(b.quantity)).db,
                  Tail(batches))

SetupCatalogs == {Catalog(init_db, prices) : prices \in UNION {[1..n -> Prices] : n \in 1..2}}

SetupBatchLists(db) ==
  UNION {[1..n -> [product_id : DOMAIN db.products, quantity : 1..SetupQty]]
         : n \in 0..SetupBatches}

StockedStores ==
  UNION {{Stocked(db, batches) : batches \in SetupBatchLists(db)} : db \in SetupCatalogs}

\* POST /bill for one unit of product 1, before the order of the behaviour.
FirstBill(db) ==
  generate_bill(db, "c0", <<[product_id |-> 1, quantity |-> JsonInt(1)]>>,
                Omitted, Omitted, 0)

\* The stocked stores, and those of them on which a first bill was accepted.
SetupStores ==
  StockedStores \cup
  {FirstBill(db).db : db \in {s \in StockedStores : FirstBill(s).resp.status = 201}}

BillRequests ==
  [op : {"generate_bill"}, customer_name : {"c1"},
   items : Orders(1..2, MaxOrderQty, OrderItems), discount : Rates, tax_rate : Rates]

InitBill ==
  /\ \E db \in SetupStores :
       /\ products = db.products
       /\ inventory = db.inventory
       /\ bills = db.bills
       /\ bill_items = db.bill_items
       /\ seq = db.seq
       /\ before = db
  /\ req = NoRequest
  /\ resp = NoResponse
  /\ conns = NoConns
  /\ lock = 0
  /\ listed = NoListing

\* The one request of the behaviour arrives and is served.
ServeBill ==
  /\ req = NoRequest
  /\ \E r \in BillRequests, bill_date \in Dates :
       /\ req' = r
       /\ Now(DB, bill_date)
       /\ Serve(generate_bill(DB, r.customer_name, r.items, r.discount,
                              r.tax_rate, bill_date))

NextBill == ServeBill

SpecBill == InitBill /\ [][NextBill]_vars

\* ------------------------------ SpecConc: orders on concurrent connections
\* Each connection serves one POST /bill; the steps of different connections
\* interleave.  sqlite3 opens a transaction before the connection's first
\* DELETE or UPDATE, not before a SELECT: until then the connection reads the
\* committed tables, and from then on it holds the write lock and works on
\* its own uncommitted copy, conns[c].work, until it commits or rolls back.
Conns == 1..NumConns

Idle ==
  [pc |-> "idle", customer_name |-> "", items |-> <<>>, i |-> 0,
   deducted_from_batches |-> <<>>, product_price |-> 0, in_transaction |-> FALSE,
   total_amount |-> 0, bill_items_to_insert |-> <<>>, work |-> init_db,
   resp |-> NoResponse, failed_at |-> ""]

ConcCatalog == Catalog(init_db, <<1, 2>>)

ConcStores ==
  {Stocked(ConcCatalog, batches) :
     batches \in UNION {[1..n -> [product_id : DOMAIN ConcCatalog.products,
                                  quantity : 1..ConcQty]] : n \in 0..ConcBatches}}

ConcOrders ==
  UNION {[1..n -> [product_id : DOMAIN ConcCatalog.products,
                   quantity : {JsonInt(q) : q \in 0..ConcQty}]] : n \in 1..ConcItems}

InitConc ==
  /\ \E db \in ConcStores :
       /\ products = db.products
       /\ inventory = db.inventory
       /\ bills = db.bills
       /\ bill_items = db.bill_items
       /\ seq = db.seq
       /\ before = db
  /\ req = NoRequest
  /\ resp = NoResponse
  /\ conns = [c \in Conns |-> Idle]
  /\ lock = 0
  /\ listed = NoListing

\* What connection c reads: its own uncommitted copy once it has written,
\* the committed tables until then.
View(c) == IF conns[c].in_transaction THEN conns[c].work ELSE DB

\* The committed tables become db.
Committed(db) ==
  /\ products' = db.products
  /\ inventory' = db.inventory
  /\ bills' = db.bills
  /\ bill_items' = db.bill_items
  /\ seq' = db.seq

\* The request arrives: the body is read and the connection opened.
Request(c) ==
  /\ conns[c].pc = "idle"
  /\ \E items \in ConcOrders :
       conns' = [conns EXCEPT ![c] = [@ EXCEPT !.pc = "item", !.customer_name = "c1",
                                               !.items = items, !.i = 1]]
  /\ UNCHANGED <<products, inventory, bills, bill_items, seq, before, req, resp, lock,
                 listed>>

\* The checks and the two SELECTs of the current item, and its deduction
\* plan; a ValueError rolls back, closes and answers 400.
ReadItem(c) ==
  LET cn == conns[c]
      item == cn.items[cn.i]
      view == View(c)
      error == ItemError(view.products, view.inventory, item)
  IN
  /\ cn.pc = "item"
  /\ IF error # ""
     THEN /\ conns' = [conns EXCEPT ![c] = [@ EXCEPT !.pc = "done", !.resp = Rejected,
                                                     !.in_transaction = FALSE,
                                                     !.work = init_db]]
          /\ Committed(Rollback(DB, view))
          /\ lock' = IF lock = c THEN 0 ELSE lock
     ELSE /\ conns' = [conns EXCEPT ![c] = [@ EXCEPT
                         !.pc = "write",
                         !.product_price = view.products[item.product_id].price,
                         !.deducted_from_batches =
                            DeductionPlan(view.inventory, item.product_id,
                                          item.quantity.val).deducted]]
          /\ UNCHANGED <<products, inventory, bills, bill_items, seq, lock>>
  /\ UNCHANGED <<before, req, resp, listed>>

\* The writes of the current item on a connection in autocommit mode: each
\* DELETE or UPDATE is committed as it is executed, and no transaction opens.
WriteItemAutocommit(c) ==
  LET cn == conns[c]
      item == cn.items[cn.i]
  IN
  /\ cn.pc = "write"
  /\ lock = 0
  /\ inventory' = ApplyDeductions(inventory, cn.deducted_from_batches)
  /\ conns' = [conns EXCEPT ![c] = [@ EXCEPT
       !.pc = IF cn.i = Len(cn.items) THEN "commit" ELSE "item",
       !.i = @ + 1,
       !.deducted_from_batches = <<>>,
       !.total_amount = @ + cn.product_price * item.quantity.val,
       !.bill_items_to_insert =
          Append(@, [product_id |-> item.product_id, quantity |-> item.quantity.val,
                     price_at_purchase |-> cn.product_price])]]
  /\ UNCHANGED <<products, bills, bill_items, seq, before, req, resp, lock, listed>>

\* The DELETEs and UPDATEs of the current item's plan, the first of them
\* opening the transaction and taking the write lock, then item_total.
WriteItem(c) ==
  LET cn == conns[c]
      item == cn.items[cn.i]
      view == View(c)
  IN
  /\ cn.pc = "write"
  /\ lock \in {0, c}
  /\ lock' = c
  /\ conns' = [conns EXCEPT ![c] = [@ EXCEPT
       !.pc = IF cn.i = Len(cn.items) THEN "commit" ELSE "item",
       !.i = @ + 1,
       !.in_transaction = TRUE,
       !.work = [view EXCEPT !.inventory = ApplyDeductions(@, cn.deducted_from_batches)],
       !.deducted_from_batches = <<>>,
       !.total_amount = @ + cn.product_price * item.quantity.val,
       !.bill_items_to_insert =
          Append(@, [product_id |-> item.product_id, quantity |-> item.quantity.val,
                     price_at_purchase |-> cn.product_price])]]
  /\ UNCHANGED <<products, inventory, bills, bill_items, seq, before, req, resp,
                 listed>>

\* The 500 response to any other exception.
Failed ==
  [op |-> "generate_bill", status |-> 500, bill_id |-> 0, total_amount |-> 0]

\* The first write finds the lock held until the connection's timeout:
\* sqlite3.OperationalError, caught as Exception: rollback, close, 500.
Busy(c) ==
  /\ conns[c].pc = "write"
  /\ lock \notin {0, c}
  /\ conns' = [conns EXCEPT ![c] = [@ EXCEPT
       !.pc = "done", !.deducted_from_batches = <<>>, !.resp = Failed,
       !.failed_at = "write"]]
  /\ UNCHANGED <<products, inventory, bills, bill_items, seq, before, req, resp, lock,
                 listed>>

\* The totals, and the INSERTs of the bill and of its line items, in the
\* connection's transaction.
InsertRows(c) ==
  LET cn == conns[c]
      view == View(c)
      final_total_amount == FinalTotal(cn.total_amount, 0, 0)
  IN
  /\ cn.pc = "commit"
  /\ lock \in {0, c}
  /\ lock' = c
  /\ \E bill_date \in Dates :
       /\ Now(view, bill_date)
       /\ conns' = [conns EXCEPT ![c] = [@ EXCEPT
            !.pc = "committing",
            !.in_transaction = TRUE,
            !.work = InsertBill(view, cn.customer_name, bill_date, final_total_amount,
                                0, 0, cn.bill_items_to_insert)]]
  /\ UNCHANGED <<products, inventory, bills, bill_items, seq, before, req, resp,
                 listed>>

\* conn.commit(), and the 201 response with cursor.lastrowid of the bill.
Commit(c) ==
  LET cn == conns[c] IN
  /\ cn.pc = "committing"
  /\ Committed(cn.work)
  /\ conns' = [conns EXCEPT ![c] = [@ EXCEPT
       !.pc = "done", !.in_transaction = FALSE, !.work = init_db,
       !.resp = Created(cn.work.seq.bills, FinalTotal(cn.total_amount, 0, 0))]]
  /\ lock' = 0
  /\ UNCHANGED <<before, req, resp, listed>>

\* An exception that is no ValueError, raised by any statement between the
\* opening of the connection and the commit: rollback, close, 500.
Fault(c) ==
  LET cn == conns[c] IN
  /\ cn.pc \in {"item", "write", "commit", "committing"}
  /\ Committed(Rollback(DB, View(c)))
  /\ lock' = IF lock = c THEN 0 ELSE lock
  /\ conns' = [conns EXCEPT ![c] = [@ EXCEPT
       !.pc = "done", !.in_transaction = FALSE, !.work = init_db,
       !.deducted_from_batches = <<>>, !.resp = Failed, !.failed_at = cn.pc]]
  /\ UNCHANGED <<before, req, resp, listed>>

NextConc ==
  \E c \in Conns :
    \/ Request(c)
    \/ ReadItem(c)
    \/ WriteItem(c)
    \/ Busy(c)
    \/ InsertRows(c)
    \/ Commit(c)
    \/ Fault(c)

SpecConc == InitConc /\ [][NextConc]_vars

\* ------------------------------------------------- bill ledger (reads)
\* SELECT * FROM bills ORDER BY bill_date DESC: the rows in descending
\* bill_date, rows of equal bill_date in the order of the table scan
\* (ascending id).
RECURSIVE OrderByBillDateDesc(_)
OrderByBillDateDesc(S) ==
  IF S = {} THEN <<>>
  ELSE LET b == CHOOSE x \in S : \A y \in S \ {x} :
                  \/ x.bill_date > y.bill_date
                  \/ x.bill_date = y.bill_date /\ x.id < y.id
       IN <<b>> \o OrderByBillDateDesc(S \ {b})

\* SELECT ... FROM bill_items bi JOIN products p ON bi.product_id = p.id
\* WHERE bi.bill_id = ?: the line items of the bill whose product row exists,
\* each with its product's name.
BillItemsOf(db, bill_id) ==
  LET rows == OrderById({r \in db.bill_items :
                           r.bill_id = bill_id /\ r.product_id \in DOMAIN db.products})
  IN [k \in 1..Len(rows) |->
        [quantity |-> rows[k].quantity,
         price_at_purchase |-> rows[k].price_at_purchase,
         product_name |-> db.products[rows[k].product_id].name]]

\* GET /bills
get_bills(db) ==
  LET rows == OrderByBillDateDesc(db.bills)
  IN [k \in 1..Len(rows) |->
        [id |-> rows[k].id, customer_name |-> rows[k].customer_name,
         bill_date |-> rows[k].bill_date, total_amount |-> rows[k].total_amount,
         discount |-> rows[k].discount, tax |-> rows[k].tax,
         items |-> BillItemsOf(db, rows[k].id)]]

\* --------------------------- SpecRead: every handler, and reads of the bills
\* One product with one batch in stock; then any request, one at a time.  A
\* request that is refused changes no table; but for POST /bill, SpecRead
\* serves the requests that are accepted.
ReadDates == 1..MaxReadDate

ReadStore ==
  Stocked(Catalog(init_db, <<1>>), <<[product_id |-> 1, quantity |-> MaxQty]>>)

InitRead ==
  /\ products = ReadStore.products
  /\ inventory = ReadStore.inventory
  /\ bills = ReadStore.bills
  /\ bill_items = ReadStore.bill_items
  /\ seq = ReadStore.seq
  /\ before = ReadStore
  /\ req = NoRequest
  /\ resp = NoResponse
  /\ conns = NoConns
  /\ lock = 0
  /\ listed = NoListing

\* The request is accepted.
Ok(r) == r.resp.status \in {200, 201}

\* What is remembered of the requests served since the last GET /bills:
\* whether one of them changed or removed a product row, and whether another
\* one changed the database.
Since(r) ==
  IF ~ listed.seen THEN listed
  ELSE IF r.resp.op \in {"update_product", "delete_product"}
  THEN [listed EXCEPT !.catalog_changed = TRUE]
  ELSE [listed EXCEPT !.other = TRUE]

\* datetime.now() is later than the date of every stored bill.
Later(db, d) == \A b \in db.bills : b.bill_date < d

ReadPostProducts ==
  \E name \in Names, price \in Prices, initial_quantity \in 0..1 :
    LET r == add_product(DB, name, price, initial_quantity) IN
    Ok(r) /\ WithinBounds(r.db) /\ Answer(r) /\ listed' = Since(r) /\ UNCHANGED req

ReadPutProduct ==
  \E product_id \in 1..MaxProducts, name \in Names, price \in Prices :
    LET r == update_product(DB, product_id, name, price) IN
    Ok(r) /\ Answer(r) /\ listed' = Since(r) /\ UNCHANGED req

ReadDeleteProduct ==
  \E product_id \in 1..MaxProducts :
    LET r == delete_product(DB, product_id) IN
    Ok(r) /\ Answer(r) /\ listed' = Since(r) /\ UNCHANGED req

ReadPostInventory ==
  \E product_id \in 1..MaxProducts, batch_number \in Labels :
    LET r == add_or_update_inventory(DB, product_id, batch_number, JsonInt(1)) IN
    Ok(r) /\ WithinBounds(r.db) /\ Answer(r) /\ listed' = Since(r) /\ UNCHANGED req

ReadDeleteInventory ==
  \E inventory_id \in 1..MaxBatches :
    LET r == delete_inventory_batch(DB, inventory_id) IN
    Ok(r) /\ Answer(r) /\ listed' = Since(r) /\ UNCHANGED req

\* A POST /bill call, accepted or not, ends the span between two reads.
ReadPostBill ==
  \E product_id \in 1..MaxProducts, quantity \in 0..MaxQty, bill_date \in ReadDates :
    LET items == <<[product_id |-> product_id, quantity |-> JsonInt(quantity)]>>
        r == generate_bill(DB, "c1", items, Omitted, Omitted, bill_date)
    IN /\ WithinBounds(r.db)
       /\ Later(DB, bill_date)
       /\ Answer(r)
       /\ listed' = NoListing
       /\ UNCHANGED req

GetBills ==
  /\ resp' = [op |-> "get_bills", status |-> 200]
  /\ listed' = [seen |-> TRUE, bills_data |-> get_bills(DB), catalog_changed |-> FALSE,
                other |-> FALSE, again |-> listed.seen /\ listed.other]
  /\ UNCHANGED <<products, inventory, bills, bill_items, seq, before, req, conns, lock>>

NextRead ==
  \/ ReadPostProducts
  \/ ReadPutProduct
  \/ ReadDeleteProduct
  \/ ReadPostInventory
  \/ ReadDeleteInventory
  \/ ReadPostBill
  \/ GetBills

SpecRead == InitRead /\ [][NextRead]_vars

\* ------------------------------------------------ properties of one order
\* The order of SpecBill has been served.
Served == req # NoRequest
Accepted == Served /\ resp.status = 201
Refused == Served /\ resp.status = 400

\* The i-th line item of the order is well formed and names a product of the
\* catalog the order found.
GoodItem(i) ==
  /\ req.items[i].quantity.type = "int"
  /\ req.items[i].quantity.val > 0
  /\ req.items[i].product_id \in DOMAIN before.products

\* FIFO, in closed form: the quantity that an order of q units of product p
\* takes from batch b, given the batches of p created before b.
Taken(inv, b, q) ==
  LET earlier == SumQty({c \in inv : c.product_id = b.product_id /\ c.id < b.id})
      left == IF q > earlier THEN q - earlier ELSE 0
  IN IF left < b.quantity THEN left ELSE b.quantity

\* The inventory after q units of product p are taken first in, first out.
FifoAfter(inv, p, q) ==
  {b \in inv : b.product_id # p} \cup
  {[b EXCEPT !.quantity = @ - Taken(inv, b, q)]
   : b \in {c \in inv : c.product_id = p /\ Taken(inv, c, q) < c.quantity}}

\* The inventory after the first n line items of the order, each taken FIFO.
RECURSIVE FifoAfterItems(_)
FifoAfterItems(n) ==
  IF n = 0 THEN before.inventory
  ELSE FifoAfter(FifoAfterItems(n - 1), req.items[n].product_id,
                 req.items[n].quantity.val)

\* The claim's wording for one line item of q units of p, from inv to after:
\* the first k batches of p in id order are gone, the next one is reduced by
\* what remained to take, and every other row is as it was.
FifoByPrefix(inv, after, p, q) ==
  LET ids == {b.id : b \in {c \in inv : c.product_id = p}}
      row(id) == CHOOSE b \in inv : b.id = id
  IN \E first \in SUBSET ids :
       LET rest == ids \ first
           remaining == q - SumQty({row(id) : id \in first})
       IN /\ \A x \in first, y \in rest : x < y
          /\ remaining >= 0
          /\ remaining > 0 => rest # {} /\ row(Min(rest)).quantity > remaining
          /\ after = {b \in inv : b.id \notin first /\ (remaining > 0 => b.id # Min(rest))}
                \cup (IF remaining > 0
                      THEN {[row(Min(rest)) EXCEPT !.quantity = @ - remaining]}
                      ELSE {})

\* C1: a POST /bill that is refused (400) leaves the inventory batches, the
\* bills and the bill line items exactly as it found them, also when the item
\* that failed came after items whose deductions had been executed.
C1_RejectionIsAtomic ==
  Refused =>
    /\ inventory = before.inventory
    /\ bills = before.bills
    /\ bill_items = before.bill_items

\* The second item fails on stock after the first item's deductions.
C1_Witness ==
  /\ Refused
  /\ Len(req.items) = 2
  /\ LET first == ProcessItem(products, StartBill(before.inventory), req.items[1], 1)
     IN /\ first.error = ""
        /\ first.in_transaction
        /\ first.inventory # before.inventory
        /\ ItemError(products, first.inventory, req.items[2]) = "stock"

\* C2: an accepted order consumes the batches of each line item's product in
\* ascending id order: the inventory left is the one found with every line
\* item, in turn, taken first in first out; for an order of one line item, the
\* first k batches of the product are removed, the next one is reduced by the
\* remaining need, and all other batches keep their quantity.
C2_FifoConsumption ==
  Accepted =>
    /\ inventory = FifoAfterItems(Len(req.items))
    /\ \A n \in 1..Len(req.items) :
         FifoByPrefix(FifoAfterItems(n - 1),
                      IF n = Len(req.items) THEN inventory ELSE FifoAfterItems(n),
                      req.items[n].product_id, req.items[n].quantity.val)

\* One line item empties the oldest batch of three, reduces the second and
\* leaves the third.
C2_Witness ==
  /\ Accepted
  /\ Len(req.items) = 1
  /\ LET p == req.items[1].product_id
         old == {b \in before.inventory : b.product_id = p}
         new == {b \in inventory : b.product_id = p}
     IN /\ Cardinality(old) = 3
        /\ Cardinality(new) = 2
        /\ \E b \in new : b \in old /\ b.id = Max({c.id : c \in old})
        /\ \E b \in new : b \notin old

\* The subtotal of the order at the catalog prices the order found.
RECURSIVE Subtotal(_)
Subtotal(n) ==
  IF n = 0 THEN 0
  ELSE Subtotal(n - 1)
       + before.products[req.items[n].product_id].price * req.items[n].quantity.val

\* C4: the total_amount stored on the new bill and returned equals
\* (sum of price_i * quantity_i) * (1 - discount) * (1 + tax_rate), with
\* discount and tax_rate 0 when omitted (amounts in units of 1/10000, rates
\* in percent).
C4_TotalComputation ==
  Accepted =>
    LET discount == IF req.discount.given THEN req.discount.val ELSE 0
        tax_rate == IF req.tax_rate.given THEN req.tax_rate.val ELSE 0
        total == Subtotal(Len(req.items)) * (100 - discount) * (100 + tax_rate)
    IN /\ resp.total_amount = total
       /\ \E b \in bills : /\ b.id = resp.bill_id
                           /\ b \notin before.bills
                           /\ b.total_amount = total

\* Two items of different products and prices, a discount given, no tax rate.
C4_Witness ==
  /\ Accepted
  /\ Len(req.items) = 2
  /\ req.items[1].product_id # req.items[2].product_id
  /\ products[req.items[1].product_id].price # products[req.items[2].product_id].price
  /\ req.discount.given
  /\ ~ req.tax_rate.given

\* The stock of the i-th item's product when the item is processed, the items
\* before it having been deducted.
RECURSIVE OrderedBefore(_, _)
OrderedBefore(i, p) ==
  IF i <= 1 THEN 0
  ELSE OrderedBefore(i - 1, p)
       + (IF req.items[i - 1].product_id = p /\ GoodItem(i - 1)
          THEN req.items[i - 1].quantity.val ELSE 0)

StockAt(i) ==
  Stock(before.inventory, req.items[i].product_id)
    - OrderedBefore(i, req.items[i].product_id)

OrderedOf(p) == OrderedBefore(Len(req.items) + 1, p)

\* C6: an order whose items are well formed and within stock, and whose
\* quantity for a product p is exactly the total of p's batches, is accepted
\* and leaves no batch of p, and no batch of quantity 0.
C6_ExactStock ==
  (/\ Served
   /\ \A i \in 1..Len(req.items) :
        GoodItem(i) /\ OrderedOf(req.items[i].product_id)
                         <= Stock(before.inventory, req.items[i].product_id))
  => /\ resp.status = 201
     /\ \A i \in 1..Len(req.items) :
          LET p == req.items[i].product_id IN
          OrderedOf(p) = Stock(before.inventory, p)
            => {b \in inventory : b.product_id = p} = {}
     /\ \A b \in inventory : b.quantity # 0

\* One line item takes exactly what the two batches of its product hold.
C6_Witness ==
  /\ Accepted
  /\ Len(req.items) = 1
  /\ LET p == req.items[1].product_id IN
     /\ Cardinality({b \in before.inventory : b.product_id = p}) = 2
     /\ req.items[1].quantity.val = Stock(before.inventory, p)
     /\ {b \in inventory : b.product_id = p} = {}

\* C14: an accepted order of n line items adds exactly one bill row, with the
\* request's customer name, discount and tax rate and the total returned, and
\* exactly n bill line item rows of that bill, the i-th of them (in the order
\* of insertion) with the i-th item's product_id and quantity; the bill_id
\* returned is the id of the new bill row.
C14_PersistedRows ==
  Accepted =>
    LET n == Len(req.items)
        new_bills == bills \ before.bills
        rows == OrderById(bill_items \ before.bill_items)
    IN /\ before.bills \subseteq bills
       /\ before.bill_items \subseteq bill_items
       /\ Cardinality(new_bills) = 1
       /\ \A b \in new_bills :
            /\ b.id = resp.bill_id
            /\ \A old \in before.bills : old.id # b.id
            /\ b.customer_name = req.customer_name
            /\ b.discount = (IF req.discount.given THEN req.discount.val ELSE 0)
            /\ b.tax = (IF req.tax_rate.given THEN req.tax_rate.val ELSE 0)
            /\ b.total_amount = resp.total_amount
       /\ Len(rows) = n
       /\ \A i \in 1..n :
            /\ rows[i].bill_id = resp.bill_id
            /\ rows[i].product_id = req.items[i].product_id
            /\ rows[i].quantity = req.items[i].quantity.val
            /\ \A old \in before.bill_items : old.id # rows[i].id

\* Two different line items, billed on a store that held a bill.
C14_Witness ==
  /\ Accepted
  /\ Len(req.items) = 2
  /\ req.items[1] # req.items[2]
  /\ before.bills # {}
  /\ req.discount.given /\ req.tax_rate.given

\* C17: an accepted order reduces the total quantity of each product p by the
\* sum of the quantities of its line items for p, leaves every batch of a
\* product that is not on the order as it was, leaves the products table as it
\* was, and leaves every bill and line item that existed as it was.
C17_StockConservation ==
  Accepted =>
    LET ordered == {req.items[i].product_id : i \in 1..Len(req.items)} IN
    /\ \A p \in DOMAIN before.products :
         Stock(inventory, p) = Stock(before.inventory, p) - OrderedOf(p)
    /\ {b \in inventory : b.product_id \notin ordered}
         = {b \in before.inventory : b.product_id \notin ordered}
    /\ products = before.products
    /\ before.bills \subseteq bills
    /\ before.bill_items \subseteq bill_items

\* Two line items of one product, batches of another product in stock, and a
\* bill in the store.
C17_Witness ==
  /\ Accepted
  /\ Len(req.items) = 2
  /\ req.items[1].product_id = req.items[2].product_id
  /\ \E b \in inventory : b.product_id # req.items[1].product_id
  /\ before.bills # {}
  /\ before.bill_items # {}

\* C18: of two well-formed line items of one product p, each within the stock
\* of p that the order found: if together they exceed it, the order is refused
\* and nothing is changed; if together they fit, the order is accepted and the
\* inventory left is the one found with the two quantities together taken
\* first in first out, the second item continuing where the first stopped.
C18_CumulativeAvailability ==
  (/\ Served
   /\ Len(req.items) = 2
   /\ GoodItem(1) /\ GoodItem(2)
   /\ req.items[1].product_id = req.items[2].product_id
   /\ req.items[1].quantity.val <= Stock(before.inventory, req.items[1].product_id)
   /\ req.items[2].quantity.val <= Stock(before.inventory, req.items[1].product_id))
  => LET p == req.items[1].product_id
         both == req.items[1].quantity.val + req.items[2].quantity.val
     IN IF both > Stock(before.inventory, p)
        THEN /\ resp.status = 400
             /\ inventory = before.inventory
             /\ bills = before.bills
             /\ bill_items = before.bill_items
        ELSE /\ resp.status = 201
             /\ inventory = FifoAfter(before.inventory, p, both)
             /\ inventory = FifoAfter(FifoAfter(before.inventory, p,
                                                req.items[1].quantity.val),
                                      p, req.items[2].quantity.val)

\* The first item leaves the oldest batch partly consumed; the second takes
\* the rest of it and goes on into the next batch.
C18_Witness ==
  /\ Accepted
  /\ Len(req.items) = 2
  /\ req.items[1].product_id = req.items[2].product_id
  /\ LET p == req.items[1].product_id
         old == {b \in before.inventory : b.product_id = p}
     IN /\ Cardinality(old) >= 2
        /\ \E b \in old :
             /\ b.id = Min({c.id : c \in old})
             /\ req.items[1].quantity.val < b.quantity
             /\ req.items[1].quantity.val + req.items[2].quantity.val > b.quantity

\* ------------------------------------------- properties of every request
\* C7: every inventory batch has a quantity of at least 1, whatever requests
\* were served: a batch reduced to zero is deleted, not kept.
C7_BatchQuantityPositive ==
  \A b \in inventory : b.quantity >= 1

\* An accepted order has just taken the last units in stock.
C7_Witness ==
  /\ resp.op = "generate_bill"
  /\ resp.status = 201
  /\ inventory = {}
  /\ seq.inventory = MaxBatches

\* C8 as claimed: every inventory batch refers to a product that exists, so
\* that none of a deleted product's batches remains.
C8_NoBatchWithoutProduct ==
  \A b \in inventory : b.product_id \in DOMAIN products

\* C9: a bill line item is created with the unit price its product has in the
\* catalog at that time, and PUT /products/<id> leaves every bill and every
\* bill line item as it is.
C9_PriceSnapshot ==
  [][/\ \A r \in bill_items' \ bill_items :
          /\ r.product_id \in DOMAIN products
          /\ r.price_at_purchase = products[r.product_id].price
     /\ resp'.op = "update_product" => bills' = bills /\ bill_items' = bill_items
    ]_vars

\* A price was changed after a sale at the old price.
C9_Witness ==
  /\ resp.op = "update_product"
  /\ resp.status = 200
  /\ \E r \in bill_items :
       /\ r.product_id \in DOMAIN products
       /\ r.price_at_purchase # products[r.product_id].price

\* C10: no request updates or removes a bill or a bill line item, and rows
\* are added to the two tables only by an accepted POST /bill.
C10_BillsImmutable ==
  [][/\ bills \subseteq bills'
     /\ bill_items \subseteq bill_items'
     /\ (bills' # bills \/ bill_items' # bill_items)
          => resp'.op = "generate_bill" /\ resp'.status = 201
    ]_vars

\* A second bill was accepted after a product on the first bill was deleted.
C10_Witness ==
  /\ resp.op = "generate_bill"
  /\ resp.status = 201
  /\ Cardinality(bills) = 2
  /\ \E r \in bill_items : r.product_id \notin DOMAIN products

\* No two batches of one product have the same label.
LabelsUnique(inv) ==
  \A a, b \in inv :
    (a.product_id = b.product_id /\ a.batch_number = b.batch_number) => a = b

\* C16: in every state no two batches of one product share a label; a
\* POST /inventory of a positive integer q for an existing product is
\* accepted, and an accepted POST /inventory (product p, label l, quantity q)
\* either adds q to the batch of p labelled l, which keeps its id, or, if p
\* has no such batch, adds one batch of quantity q with an id above every
\* other, last in p's FIFO order; the stock of p rises by q and no other batch
\* changes.
C16_LabelMerge ==
  /\ [](/\ LabelsUnique(inventory)
        /\ \A p \in DOMAIN products, l \in Labels, q \in 1..MaxQty :
             add_or_update_inventory(DB, p, l, JsonInt(q)).resp.status = 201)
  /\ [][req'.op = "add_or_update_inventory" =>
          LET p == req'.product_id
              l == req'.batch_number
              q == req'.quantity.val
              existing == {b \in inventory : b.product_id = p /\ b.batch_number = l}
          IN /\ q >= 1
             /\ Stock(inventory', p) = Stock(inventory, p) + q
             /\ IF existing # {}
                THEN inventory' = {IF b \in existing THEN [b EXCEPT !.quantity = @ + q]
                                   ELSE b : b \in inventory}
                ELSE \E new \in inventory' :
                       /\ inventory' = inventory \cup {new}
                       /\ new \notin inventory
                       /\ new.product_id = p /\ new.batch_number = l
                       /\ new.quantity = q
                       /\ \A b \in inventory : b.id < new.id
                       /\ AvailableInventory(inventory', p)
                            = Append(AvailableInventory(inventory, p), new)
    ]_vars

\* A quantity was added to a batch that is not the oldest of its product.
C16_Witness ==
  /\ req.op = "add_or_update_inventory"
  /\ \E b, c \in inventory :
       /\ b.product_id = req.product_id /\ b.batch_number = req.batch_number
       /\ b.quantity > req.quantity.val
       /\ c.product_id = b.product_id /\ c.id < b.id

\* C19 as claimed: right after an accepted POST /products with
\* initial_quantity q, the new product has, if q > 0, exactly one batch,
\* labelled INITIAL-<product id>, of quantity q, and no batch otherwise; its
\* stock is max(q, 0).
C19_InitialStock ==
  req.op = "add_product" =>
    LET q == req.initial_quantity
        mine == {b \in inventory : b.product_id = resp.id}
    IN /\ IF q > 0
          THEN /\ Cardinality(mine) = 1
               /\ \A b \in mine : /\ b.batch_number = InitialLabel(resp.id)
                                  /\ b.quantity = q
          ELSE mine = {}
       /\ Stock(inventory, resp.id) = Max({q, 0})

\* --------------------------------------- properties of concurrent orders
AllDone == \A c \in Conns : conns[c].pc = "done"

\* The units of product p on the bill line items stored.
Sold(p) == SumQty({r \in bill_items : r.product_id = p})

\* C3 as claimed: when the concurrent orders have finished, for every product
\* the stock found equals the stock left plus the units on the committed
\* bills, and the bills do not sell more than the stock found.
C3_NoOverselling ==
  AllDone =>
    \A p \in DOMAIN products :
      /\ Stock(before.inventory, p) = Stock(inventory, p) + Sold(p)
      /\ Sold(p) <= Stock(before.inventory, p)

\* ------------------------------------------------ properties of the reads
\* C11 as claimed: two GET /bills with no POST /bill between them return the
\* same list, whatever else was served between them.
C11_ReadsIdempotentAsClaimed ==
  [][(resp'.op = "get_bills" /\ listed.seen)
       => listed'.bills_data = listed.bills_data]_vars

\* C11, amended: two GET /bills with no POST /bill, no accepted
\* PUT /products/<id> and no accepted DELETE /products/<id> between them return
\* the same list (same bills, same order, same line items with the same
\* quantity, price_at_purchase and product_name), whatever else was served
\* between them.
C11_ReadsIdempotent ==
  [][(resp'.op = "get_bills" /\ listed.seen /\ ~ listed.catalog_changed)
       => listed'.bills_data = listed.bills_data]_vars

\* A second read of a list of two bills, one with a line item, after a
\* request that changed the database but no product row.
C11_Witness ==
  /\ resp.op = "get_bills"
  /\ listed.again
  /\ Len(listed.bills_data) = 2
  /\ \E k \in 1..2 : listed.bills_data[k].items # <<>>

\* C15 as claimed: GET /bills returns every stored bill exactly once, a bill
\* created later (of greater id) before a bill created earlier, in descending
\* bill_date, and each bill with its own line items: as many as the bill has
\* rows in bill_items, each of them a row of that bill.
C15_NewestFirst ==
  resp.op = "get_bills" =>
    LET bills_data == listed.bills_data IN
    /\ Len(bills_data) = Cardinality(bills)
    /\ {bills_data[k].id : k \in 1..Len(bills_data)} = {b.id : b \in bills}
    /\ \A i, j \in 1..Len(bills_data) :
         i < j => /\ bills_data[i].id > bills_data[j].id
                  /\ bills_data[i].bill_date >= bills_data[j].bill_date
    /\ \A k \in 1..Len(bills_data) :
         LET rows == {r \in bill_items : r.bill_id = bills_data[k].id} IN
         /\ Len(bills_data[k].items) = Cardinality(rows)
         /\ \A m \in 1..Len(bills_data[k].items) :
              \E r \in rows : /\ r.quantity = bills_data[k].items[m].quantity
                              /\ r.price_at_purchase
                                   = bills_data[k].items[m].price_at_purchase

\* C12: the tables that the other requests read (the committed tables: a
\* connection reads its own writes only) change in no step of a POST /bill
\* but its commit, and that step adds the bill and all the line items of the
\* order together with the order's deductions; whatever a request wrote
\* before it failed is never in them.
C12_NoPartialState ==
  [][(inventory' # inventory \/ bills' # bills \/ bill_items' # bill_items) =>
       \E c \in Conns :
         /\ conns[c].pc = "committing"
         /\ conns'[c].resp.status = 201
         /\ inventory' = conns[c].work.inventory
         /\ bills \subseteq bills'
         /\ bill_items \subseteq bill_items'
         /\ \E b \in bills' \ bills :
              /\ bills' \ bills = {b}
              /\ b.id = conns'[c].resp.bill_id
              /\ \A r \in bill_items' \ bill_items : r.bill_id = b.id
         /\ Cardinality(bill_items' \ bill_items) = Len(conns[c].items)
    ]_vars

\* One request has deducted on its connection and not committed, while
\* another is about to read, and reads the inventory as it was.
C12_Witness ==
  \E c, d \in Conns :
    /\ c # d
    /\ conns[c].in_transaction
    /\ conns[c].work.inventory # inventory
    /\ conns[d].pc = "item"
    /\ inventory = before.inventory
    /\ View(d).inventory = before.inventory

\* C13: the step in which a POST /bill is answered 500 leaves inventory, bills
\* and bill_items as they are, and so does every earlier step of that
\* request: the request has changed nothing.
C13_FailureRollsBack ==
  [][\A c \in Conns :
       (conns'[c] # conns[c] /\ conns'[c].resp.status # 201) =>
         /\ inventory' = inventory
         /\ bills' = bills
         /\ bill_items' = bill_items
         /\ conns'[c].resp.status = 500 => conns'[c].pc = "done" /\ lock' # c
    ]_vars

\* A request failed after its deductions and its INSERTs were executed, and
\* nothing of it is in the tables.
C13_Witness ==
  \E c \in Conns :
    /\ conns[c].resp.status = 500
    /\ conns[c].failed_at = "committing"
    /\ inventory = before.inventory
    /\ bills = {}

====
